---- MODULE Spec2Model ----
(***************************************************************************)
(* Model of merkle-tree-rs: src/src/tree.rs (MerkleTree, Node, MerkleNode,  *)
(* MerkleLeaf) and src/src/lib.rs (calculate_hash).                        *)
(*                                                                         *)
(* A client builds two trees (slot 1, then slot 2), each either with       *)
(* MerkleTree::from_vec or by hand (MerkleLeaf::from / MerkleNode::new /    *)
(* MerkleTree::new), and compares them with ==, as the tests of tree.rs do. *)
(* from_vec is followed one build_until_root invocation at a time, so that *)
(* the recursion, its panic and its non-termination are visible.           *)
(***************************************************************************)
EXTENDS Integers, Sequences

VARIABLES
    arg,      \* arg[c]: what the client does in slot c (operation and arguments)
    pc,       \* pc[c]: position of slot c
    nodes,    \* nodes[c]: the Vec<Node<T>> passed to build_until_root
    passes,   \* passes[c]: pairwise-reduction passes run so far (recursion depth)
    entry,    \* entry[c]: Option of the Node<T> made by hand in slot c
    tree,     \* tree[c]: Option of the MerkleTree of slot c
    eqdone,   \* the comparison tree[1] == tree[2] has run
    eqres     \* its result

vars == <<arg, pc, nodes, passes, entry, tree, eqdone, eqres>>

Slots == {1, 2}

(***************************************************************************)
(* Bounds of the model.                                                    *)
(***************************************************************************)
MaxLen == 8        \* longest input of from_vec when the same call is made twice
MaxPairLen == 4    \* longest input of from_vec when two different calls are compared
MaxMixedLen == 2   \* longest input whose items are of mixed shapes
StackDepth == 5    \* depth of the build_until_root recursion that exhausts the stack

(***************************************************************************)
(* Bytes.  A byte sequence is a sequence of blocks.  A block is either one *)
(* raw byte or one digest: the fixed-length output of the hasher, which    *)
(* stands for its 64 bytes as a unit.                                      *)
(***************************************************************************)
RawByte(k) == [digest |-> FALSE, raw |-> k, pre |-> <<>>]

\* lib.rs calculate_hash: Blake2b of the bytes.  The hasher is taken as
\* collision-free with fixed-length output: the digest block of a byte
\* sequence determines the sequence, and is one block whatever the input.
calculate_hash(bytes) == << [digest |-> TRUE, raw |-> 0, pre |-> bytes] >>

\* T: AsRef<[u8]>; the items are byte strings and as_ref is their bytes.
as_ref(d) == d

(***************************************************************************)
(* Option<T>: None is <<>>, Some(x) is <<x>>.                              *)
(***************************************************************************)
None == <<>>
Some(x) == <<x>>
is_some(o) == o # <<>>
unwrap(o) == o[1]

(***************************************************************************)
(* The data model.                                                         *)
(***************************************************************************)
\* struct MerkleLeaf { hash, data }, wrapped in Node::Leaf
Leaf(h, d) == [kind |-> "Leaf", hash |-> h, data |-> d]

\* struct MerkleNode { hash, left, right }, wrapped in Node::Node
Node(h, l, r) == [kind |-> "Node", hash |-> h, left |-> l, right |-> r]

\* Node::hash
hash(e) == IF e.kind = "Node" THEN e.hash ELSE e.hash

\* impl From<T> for MerkleLeaf
MerkleLeafFrom(data) == Leaf(calculate_hash(as_ref(data)), data)

\* Faulty variant of MerkleNodeNew: the right digest is concatenated first.
MerkleNodeNewSwapped(left, right) ==
    LET concat == hash(right) \o hash(left)
    IN  Node(calculate_hash(concat), left, right)

\* Faulty variant of MerkleNodeNew: the right digest is left out of the hash.
MerkleNodeNewLeftOnly(left, right) ==
    LET concat == hash(left)
    IN  Node(calculate_hash(concat), left, right)

\* Faulty variant of MerkleNodeNew: the two digests are put in a canonical
\* order before hashing, so that the hash does not tell left from right.
MerkleNodeNewUnordered(left, right) ==
    LET first == CHOOSE h \in {hash(left), hash(right)} : TRUE
        second == IF first = hash(left) THEN hash(right) ELSE hash(left)
    IN  Node(calculate_hash(first \o second), left, right)

\* MerkleNode::new with hash_fn = calculate_hash
MerkleNodeNew(left, right) ==
    LET concat == hash(left) \o hash(right)
    IN  Node(calculate_hash(concat), left, right)

\* MerkleTree::new
MerkleTreeNew(root) == [root |-> root]

\* Faulty variant of TreeEq: the derived, structural comparison.
TreeEqStructural(self, other) == self.root = other.root

\* impl PartialEq for MerkleTree
TreeEq(self, other) == hash(self.root) = hash(other.root)

\* from_vec, lines 20-23: every item becomes a Leaf, in input order
LeavesOf(data) ==
    [i \in 1..Len(data) |-> Leaf(calculate_hash(as_ref(data[i])), data[i])]

(***************************************************************************)
(* build_until_root, lines 37-46: the loop over the iterator.  iter is the *)
(* rest of the vector, acc the new vector.  right.unwrap() panics when the *)
(* iterator ended after left.                                              *)
(***************************************************************************)
next(iter) == IF iter = <<>> THEN None ELSE Some(Head(iter))
advance(iter) == IF iter = <<>> THEN <<>> ELSE Tail(iter)

RECURSIVE WhileLoop(_, _, _, _)
WhileLoop(left, right, iter, acc) ==
    IF is_some(left)
    THEN IF is_some(right)
         THEN WhileLoop(next(iter), next(advance(iter)), advance(advance(iter)),
                        Append(acc, MerkleNodeNew(unwrap(left), unwrap(right))))
         ELSE [panicked |-> TRUE, nodes |-> acc]
    ELSE [panicked |-> FALSE, nodes |-> acc]

\* Faulty variant of ReducePass: an entry left without a partner is dropped.
ReducePassDropping(level) ==
    [panicked |-> FALSE,
     nodes |-> [i \in 1..(Len(level) \div 2) |->
                   MerkleNodeNew(level[2 * i - 1], level[2 * i])]]

\* Faulty variant of ReducePass: entry i is paired with entry i + n/2.
ReducePassStride(level) ==
    LET half == Len(level) \div 2
    IN  [panicked |-> Len(level) % 2 = 1,
         nodes |-> [i \in 1..half |-> MerkleNodeNew(level[i], level[i + half])]]

\* lines 37-46 as a whole: the next level, or a panic
ReducePass(level) ==
    WhileLoop(next(level), next(advance(level)), advance(advance(level)), <<>>)

\* Faulty variant of IsRoot: the early return of lines 33-35 is missing.
IsRootNever(level) == FALSE

\* line 33: nodes.len() == 1
IsRoot(level) == Len(level) = 1

(***************************************************************************)
(* What the client hands to the library.                                   *)
(***************************************************************************)
\* the items of the tests of tree.rs: "a", "b", "c", "d"
ItemA == << RawByte(97) >>
ItemB == << RawByte(98) >>
ItemC == << RawByte(99) >>
ItemD == << RawByte(100) >>

RawItems == {ItemA, ItemB}

\* the item "ab" and the empty item
ItemAB == << RawByte(97), RawByte(98) >>
ItemEmpty == << >>

\* an item whose bytes are two digests, one after the other
DigestPair(x, y) == calculate_hash(x) \o calculate_hash(y)

\* the input whose items are the digest pairs of the items of xs, two by two
Fold(xs) == [i \in 1..(Len(xs) \div 2) |-> DigestPair(xs[2 * i - 1], xs[2 * i])]

SeqsUpTo(S, n) == UNION {[1..m -> S] : m \in 0..n}

\* the vectors of the tests of tree.rs, lines 138, 151, 157-159
TestVectors == { <<ItemA, ItemB, ItemC, ItemD>>,
                 <<ItemD, ItemB, ItemC, ItemD>>,
                 <<ItemA, ItemB, ItemC>> }

\* items of several shapes: one byte, two bytes, none, two digests
MixedItems == {ItemA, ItemAB, ItemEmpty, DigestPair(ItemA, ItemB)}

Inputs(n) ==
    LET raw == SeqsUpTo(RawItems, n) \cup TestVectors
    IN  raw \cup {Fold(xs) : xs \in {r \in raw : Len(r) >= 2}}
            \cup SeqsUpTo(MixedItems, MaxMixedLen)

\* entries written as struct literals: the fields are pub, so the hash need
\* not be the digest of the data
HandEntries == {Leaf(calculate_hash(h), d) : h \in RawItems, d \in RawItems}

FromVecCalls(n) == {[op |-> "from_vec", data |-> xs] : xs \in Inputs(n)}

HandCalls ==
    {[op |-> "leaf", item |-> x] : x \in RawItems}
      \cup {[op |-> "node", left |-> l, right |-> r] : l \in HandEntries, r \in HandEntries}
      \cup {[op |-> "literal", root |-> e] : e \in HandEntries}

(***************************************************************************)
(* The state machine.                                                      *)
(***************************************************************************)
IdleState ==
    /\ pc = [c \in Slots |-> "idle"]
    /\ nodes = [c \in Slots |-> <<>>]
    /\ passes = [c \in Slots |-> 0]
    /\ entry = [c \in Slots |-> None]
    /\ tree = [c \in Slots |-> None]
    /\ eqdone = FALSE
    /\ eqres = FALSE

\* two calls, compared
Init ==
    /\ arg \in [Slots -> FromVecCalls(MaxPairLen) \cup HandCalls]
    /\ IdleState

\* the same call made twice
InitTwice ==
    /\ \E a \in FromVecCalls(MaxLen) \cup HandCalls : arg = [c \in Slots |-> a]
    /\ IdleState

HasTree(c) == pc[c] \in {"done", "new"}

\* the client is one thread: slot 2 starts when slot 1 has its tree
Turn(c) == c = 1 \/ HasTree(1)

\* Faulty variant of FromVec: the hasher is keyed anew for every call (the
\* key is put before the bytes of each item), as a randomly seeded hasher is.
FromVecKeyed(c) ==
    /\ Turn(c)
    /\ pc[c] = "idle"
    /\ arg[c].op = "from_vec"
    /\ nodes' = [nodes EXCEPT ![c] =
                    [i \in 1..Len(arg[c].data) |->
                        Leaf(calculate_hash(<<RawByte(c)>> \o as_ref(arg[c].data[i])),
                             arg[c].data[i])]]
    /\ pc' = [pc EXCEPT ![c] = "build"]
    /\ UNCHANGED <<arg, passes, entry, tree, eqdone, eqres>>

\* MerkleTree::from_vec, lines 19-25: the leaves, then build_until_root
FromVec(c) ==
    /\ Turn(c)
    /\ pc[c] = "idle"
    /\ arg[c].op = "from_vec"
    /\ nodes' = [nodes EXCEPT ![c] = LeavesOf(arg[c].data)]
    /\ pc' = [pc EXCEPT ![c] = "build"]
    /\ UNCHANGED <<arg, passes, entry, tree, eqdone, eqres>>

\* one invocation of build_until_root, lines 32-49: the root is returned
\* (and from_vec wraps it, lines 27-29), or the level is reduced and the
\* function calls itself, or right.unwrap() panics
BuildUntilRoot(c) ==
    /\ pc[c] = "build"
    /\ IF IsRoot(nodes[c])
       THEN /\ tree' = [tree EXCEPT ![c] = Some([root |-> nodes[c][1]])]
            /\ pc' = [pc EXCEPT ![c] = "done"]
            /\ UNCHANGED <<nodes, passes>>
       ELSE /\ passes[c] < StackDepth
            /\ LET r == ReducePass(nodes[c])
               IN  IF r.panicked
                   THEN /\ pc' = [pc EXCEPT ![c] = "panic"]
                        /\ UNCHANGED <<nodes, passes, tree>>
                   ELSE /\ nodes' = [nodes EXCEPT ![c] = r.nodes]
                        /\ passes' = [passes EXCEPT ![c] = passes[c] + 1]
                        /\ UNCHANGED <<pc, tree>>
    /\ UNCHANGED <<arg, entry, eqdone, eqres>>

\* line 48: the recursion has no end when the level never gets to one entry;
\* a build that keeps a frame per call then runs out of stack and the process
\* is aborted (a build that reuses the frame loops for ever instead)
StackOverflow(c) ==
    /\ pc[c] = "build"
    /\ ~IsRoot(nodes[c])
    /\ passes[c] = StackDepth
    /\ pc' = [pc EXCEPT ![c] = "abort"]
    /\ UNCHANGED <<arg, nodes, passes, entry, tree, eqdone, eqres>>

\* MerkleLeaf::from, wrapped in Node::Leaf
LeafFrom(c) ==
    /\ Turn(c)
    /\ pc[c] = "idle"
    /\ arg[c].op = "leaf"
    /\ entry' = [entry EXCEPT ![c] = Some(MerkleLeafFrom(arg[c].item))]
    /\ pc' = [pc EXCEPT ![c] = "made"]
    /\ UNCHANGED <<arg, nodes, passes, tree, eqdone, eqres>>

\* MerkleNode::new, wrapped in Node::Node
NodeNew(c) ==
    /\ Turn(c)
    /\ pc[c] = "idle"
    /\ arg[c].op = "node"
    /\ entry' = [entry EXCEPT ![c] = Some(MerkleNodeNew(arg[c].left, arg[c].right))]
    /\ pc' = [pc EXCEPT ![c] = "made"]
    /\ UNCHANGED <<arg, nodes, passes, tree, eqdone, eqres>>

\* MerkleTree::new, on the entry just made or on a struct literal
New(c) ==
    /\ Turn(c)
    /\ \/ pc[c] = "made"
       \/ pc[c] = "idle" /\ arg[c].op = "literal"
    /\ LET root == IF pc[c] = "made" THEN unwrap(entry[c]) ELSE arg[c].root
       IN  tree' = [tree EXCEPT ![c] = Some(MerkleTreeNew(root))]
    /\ pc' = [pc EXCEPT ![c] = "new"]
    /\ UNCHANGED <<arg, nodes, passes, entry, eqdone, eqres>>

\* tree[1] == tree[2]
Eq ==
    /\ HasTree(1)
    /\ HasTree(2)
    /\ ~eqdone
    /\ eqdone' = TRUE
    /\ eqres' = TreeEq(unwrap(tree[1]), unwrap(tree[2]))
    /\ UNCHANGED <<arg, pc, nodes, passes, entry, tree>>

Next ==
    \/ \E c \in Slots : FromVec(c)
    \/ \E c \in Slots : BuildUntilRoot(c)
    \/ \E c \in Slots : StackOverflow(c)
    \/ \E c \in Slots : LeafFrom(c)
    \/ \E c \in Slots : NodeNew(c)
    \/ \E c \in Slots : New(c)
    \/ Eq

Spec == Init /\ [][Next]_vars

SpecTwice == InitTwice /\ [][Next]_vars

(***************************************************************************)
(* Vocabulary of the properties.                                           *)
(***************************************************************************)
RECURSIVE Pow2(_)
Pow2(k) == IF k = 0 THEN 1 ELSE 2 * Pow2(k - 1)

\* the least k with 2^k >= n, for n >= 1
RECURSIVE CeilLog2(_)
CeilLog2(n) == IF n <= 1 THEN 0 ELSE 1 + CeilLog2((n + 1) \div 2)

IsPow2(n) == n >= 1 /\ Pow2(CeilLog2(n)) = n

\* the data of the leaves of an entry, left to right
RECURSIVE LeafData(_)
LeafData(e) ==
    IF e.kind = "Leaf" THEN << e.data >> ELSE LeafData(e.left) \o LeafData(e.right)

RECURSIVE NodeCount(_)
NodeCount(e) ==
    IF e.kind = "Leaf" THEN 0 ELSE 1 + NodeCount(e.left) + NodeCount(e.right)

\* every leaf of e is k Nodes below e
RECURSIVE Perfect(_, _)
Perfect(e, k) ==
    IF e.kind = "Leaf" THEN k = 0
    ELSE k >= 1 /\ Perfect(e.left, k - 1) /\ Perfect(e.right, k - 1)

\* the tree the specification describes for 2^k items, written top down:
\* the root of the first half and the root of the second half, joined
RECURSIVE Described(_)
Described(items) ==
    IF Len(items) = 1
    THEN [kind |-> "Leaf", hash |-> calculate_hash(items[1]), data |-> items[1]]
    ELSE LET half == Len(items) \div 2
             l == Described(SubSeq(items, 1, half))
             r == Described(SubSeq(items, half + 1, Len(items)))
         IN  [kind |-> "Node", hash |-> calculate_hash(l.hash \o r.hash),
              left |-> l, right |-> r]

\* digest consistency of an entry and of everything below it
RECURSIVE Consistent(_)
Consistent(e) ==
    IF e.kind = "Leaf"
    THEN e.hash = calculate_hash(e.data)
    ELSE /\ e.hash = calculate_hash(e.left.hash \o e.right.hash)
         /\ Consistent(e.left)
         /\ Consistent(e.right)

IsFromVec(c) == arg[c].op = "from_vec"
Root(c) == tree[c][1].root

\* C1: t1 == t2 is true exactly when the hash field of t1's root equals the
\* hash field of t2's root, however the two trees were built; data and the
\* entries below the root do not count.
C1_EqIsRootDigestEq ==
    eqdone => (eqres <=> (Root(1).hash = Root(2).hash))

\* two trees that differ in what they hold and compare equal; slot 1 made by hand
C1_Witness ==
    /\ eqdone
    /\ eqres
    /\ pc[1] = "new"
    /\ Root(1) # Root(2)

\* C2: for n = 2^k items (k >= 1), while from_vec reduces, the i-th entry of
\* the level after p passes is the described tree of items (i-1)*2^p+1 ..
\* i*2^p (so each Node has entry 2i-1 and entry 2i of the level before as left
\* and right); the returned root is the described tree of all the items: a
\* perfect tree of depth k with n-1 Nodes whose leaves are the items in order.
C2_PositionalPairing ==
    \A c \in Slots :
        (IsFromVec(c) /\ Len(arg[c].data) >= 2 /\ IsPow2(Len(arg[c].data))) =>
            LET data == arg[c].data
                n == Len(data)
                w == Pow2(passes[c])
            IN  /\ pc[c] = "build" =>
                    /\ Len(nodes[c]) * w = n
                    /\ \A i \in 1..Len(nodes[c]) :
                          nodes[c][i] = Described(SubSeq(data, (i - 1) * w + 1, i * w))
                /\ pc[c] = "done" =>
                    /\ Root(c) = Described(data)
                    /\ LeafData(Root(c)) = data
                    /\ NodeCount(Root(c)) = n - 1
                    /\ Perfect(Root(c), CeilLog2(n))
                /\ (pc[c] = "done" /\ data = <<ItemA, ItemB, ItemC, ItemD>>) =>
                    Root(c) = MerkleNodeNew(
                                 MerkleNodeNew(MerkleLeafFrom(ItemA), MerkleLeafFrom(ItemB)),
                                 MerkleNodeNew(MerkleLeafFrom(ItemC), MerkleLeafFrom(ItemD)))

\* a tree of eight items returned
C2_Witness ==
    \E c \in Slots :
        /\ IsFromVec(c)
        /\ pc[c] = "done"
        /\ Len(arg[c].data) = 8
        /\ passes[c] = 3
        /\ Root(c).left.left.left.data # Root(c).left.left.right.data

\* C3: a Leaf made by MerkleLeaf::from holds the item and the digest of its
\* bytes; a Node made by MerkleNode::new holds the two children it was given
\* and the digest of left.hash followed by right.hash; every entry of every
\* level from_vec builds, and of the tree it returns, is consistent in this
\* way, and the leaves hold the items of the input.
C3_DigestConsistency ==
    \A c \in Slots :
        /\ (arg[c].op = "leaf" /\ pc[c] \in {"made", "new"}) =>
              /\ entry[c][1].kind = "Leaf"
              /\ entry[c][1].data = arg[c].item
              /\ entry[c][1].hash = calculate_hash(arg[c].item)
        /\ (arg[c].op = "node" /\ pc[c] \in {"made", "new"}) =>
              /\ entry[c][1].kind = "Node"
              /\ entry[c][1].left = arg[c].left
              /\ entry[c][1].right = arg[c].right
              /\ entry[c][1].hash = calculate_hash(arg[c].left.hash \o arg[c].right.hash)
        /\ (IsFromVec(c) /\ pc[c] \in {"build", "panic", "abort"}) =>
              /\ \A i \in 1..Len(nodes[c]) : Consistent(nodes[c][i])
              /\ passes[c] = 0 =>
                    /\ Len(nodes[c]) = Len(arg[c].data)
                    /\ \A i \in 1..Len(nodes[c]) :
                          nodes[c][i].kind = "Leaf" /\ nodes[c][i].data = arg[c].data[i]
        /\ (IsFromVec(c) /\ pc[c] = "done") => Consistent(Root(c))

\* a tree of four items with different digests left and right, and a Node made
\* by hand from two different children
C3_Witness ==
    /\ IsFromVec(1)
    /\ pc[1] = "done"
    /\ Len(arg[1].data) = 4
    /\ Root(1).left.hash # Root(1).right.hash
    /\ Root(1).left.left.hash # Root(1).left.right.hash
    /\ arg[2].op = "node"
    /\ pc[2] = "made"
    /\ arg[2].left.hash # arg[2].right.hash

\* the reduction of n entries meets a level of odd length greater than one
RECURSIVE ReachesOddLevel(_)
ReachesOddLevel(n) ==
    IF n <= 1 THEN FALSE
    ELSE IF n % 2 = 1 THEN TRUE
    ELSE ReachesOddLevel(n \div 2)

C4_NoTree(c) ==
    (IsFromVec(c) /\ ReachesOddLevel(Len(arg[c].data))) =>
        /\ tree[c] = None
        /\ pc[c] \in {"idle", "build", "panic"}
        /\ pc[c] = "panic" => (Len(nodes[c]) > 1 /\ Len(nodes[c]) % 2 = 1)

C4_Rejects(c) ==
    (pc[c] = "build" /\ Len(nodes[c]) > 1 /\ Len(nodes[c]) % 2 = 1 /\ pc'[c] # pc[c]) =>
        (pc'[c] = "panic" /\ tree'[c] = None /\ nodes'[c] = nodes[c])

C5_SingleItem ==
    \A c \in Slots :
        (IsFromVec(c) /\ Len(arg[c].data) = 1) =>
            /\ pc[c] \in {"idle", "build", "done"}
            /\ passes[c] = 0
            /\ pc[c] = "done" =>
                  /\ Root(c).kind = "Leaf"
                  /\ Root(c).data = arg[c].data[1]
                  /\ Root(c).hash = calculate_hash(arg[c].data[1])

\* a single-item tree returned
C5_Witness ==
    \E c \in Slots :
        /\ IsFromVec(c)
        /\ Len(arg[c].data) = 1
        /\ pc[c] = "done"
        /\ Root(c).kind = "Leaf"

BothFromVec == IsFromVec(1) /\ IsFromVec(2) /\ pc[1] = "done" /\ pc[2] = "done"

C7_ContentSensitive ==
    (/\ BothFromVec
     /\ eqdone
     /\ Len(arg[1].data) = Len(arg[2].data)
     /\ IsPow2(Len(arg[1].data))
     /\ arg[1].data # arg[2].data) => ~eqres

\* [a,b,c,d] against [d,b,c,d], and two inputs that are each other's swap
C7_Witness ==
    /\ BothFromVec
    /\ eqdone
    /\ ~eqres
    /\ \/ arg[1].data = <<ItemA, ItemB, ItemC, ItemD>> /\ arg[2].data = <<ItemD, ItemB, ItemC, ItemD>>
       \/ arg[1].data = <<ItemA, ItemB>> /\ arg[2].data = <<ItemB, ItemA>>

\* C8, as claimed: from_vec ends on every input, the empty one included: each
\* pass has strictly fewer entries than the one before (so passes plus
\* entries never exceed the items), the call ends by returning a tree or by
\* failing to the caller, never by exhausting the stack, and a call that
\* returns has run ceil(log2(n)) passes.
C8_TerminatesOnEveryInput ==
    \A c \in Slots :
        IsFromVec(c) =>
            /\ pc[c] # "abort"
            /\ pc[c] \in {"build", "done", "panic"} =>
                  passes[c] + Len(nodes[c]) <= Len(arg[c].data)
            /\ pc[c] = "done" => passes[c] = CeilLog2(Len(arg[c].data))

\* C9, as claimed: two calls of from_vec that return trees which compare equal
\* were given the same items (the hasher being collision-free).
C9_RootIdentifiesInput ==
    (BothFromVec /\ eqdone /\ eqres) => arg[1].data = arg[2].data

\* xs with the items at i and j exchanged
Swap(xs, i, j) ==
    [m \in 1..Len(xs) |-> IF m = i THEN xs[j] ELSE IF m = j THEN xs[i] ELSE xs[m]]

\* the i-th entry, from the left, among the entries p levels above the leaves
\* of e, a perfect tree of height h
RECURSIVE EntryAt(_, _, _, _)
EntryAt(e, h, p, i) ==
    IF h = p THEN e
    ELSE LET half == Pow2(h - p - 1)
         IN  IF i <= half THEN EntryAt(e.left, h - 1, p, i)
             ELSE EntryAt(e.right, h - 1, p, i - half)

\* the i-th entry p levels above the leaves is leaf m or an ancestor of it
Covers(p, i, m) == (i - 1) * Pow2(p) < m /\ m <= i * Pow2(p)

\* C10: when the second input is the first (of length n = 2^k) with two
\* different items at i and j exchanged, the two trees differ in the digest of
\* exactly the entries that are leaf i, leaf j or an ancestor of either, the
\* root included; every other entry has the same digest in both.
C10_SwapPropagation ==
    BothFromVec =>
        LET xs == arg[1].data
            ys == arg[2].data
            n == Len(xs)
            k == CeilLog2(n)
        IN  \A i \in 1..n, j \in 1..n :
                (IsPow2(n) /\ i # j /\ xs[i] # xs[j] /\ ys = Swap(xs, i, j)) =>
                    \A p \in 0..k : \A m \in 1..Pow2(k - p) :
                        (Covers(p, m, i) \/ Covers(p, m, j))
                            <=> (EntryAt(Root(1), k, p, m).hash # EntryAt(Root(2), k, p, m).hash)

\* two siblings exchanged in an input of four: the other half keeps its digest
C10_Witness ==
    /\ BothFromVec
    /\ Len(arg[1].data) = 4
    /\ arg[1].data[1] # arg[1].data[2]
    /\ arg[2].data = Swap(arg[1].data, 1, 2)
    /\ Root(1).left.hash # Root(2).left.hash
    /\ Root(1).right.hash = Root(2).right.hash
    /\ Root(1).hash # Root(2).hash

====
